---- MODULE Spec2Model ----
(***************************************************************************)
(* Model of the Discord check-in bot's Lambda entry point,                 *)
(* src/discord_checkin_bot/src/lambda/checkin_bot_main.py.                 *)
(*                                                                         *)
(* One invocation of lambda_handler is a short run of steps: signature     *)
(* verification, JSON parsing, dispatch on the interaction type, and, for  *)
(* a slash command, the callback POST followed by the acknowledgment.      *)
(* Python dicts are records whose DOMAIN holds the keys that are present;  *)
(* Python strings that the code inspects are sequences of characters.      *)
(* An invocation ends either by returning a response or by an exception    *)
(* leaving lambda_handler.                                                 *)
(***************************************************************************)
EXTENDS Integers, Sequences, FiniteSets, TLC

VARIABLES nacl_checks_length, pc, event, message_data, gets, posts, outcome, resp, exc

vars == <<nacl_checks_length, pc, event, message_data, gets, posts, outcome, resp, exc>>

(***************************************************************************)
(* Bounds of the model.                                                    *)
(***************************************************************************)
MaxOptions == 2
MaxAttachments == 6
MaxPredictions == 6

(***************************************************************************)
(* Program constants.                                                      *)
(***************************************************************************)
MaxSuggestions == 5
MaxAttachmentEmbeds == 4
EphemeralFlag == 64

Min(a, b) == IF a < b THEN a ELSE b

(***************************************************************************)
(* Python dicts.  A dict is a function whose DOMAIN is the set of keys     *)
(* present; Get is dict.get(key, default), d[k] on an absent key is a      *)
(* KeyError, which the operators below report instead of evaluating.       *)
(***************************************************************************)
EmptyDict == [k \in {} |-> 0]

Optional(k, S) == {EmptyDict} \cup {k :> v : v \in S}

Get(d, k, default) == IF k \in DOMAIN d THEN d[k] ELSE default

(***************************************************************************)
(* Inputs: the inbound event.                                              *)
(***************************************************************************)
\* The x-signature-ed25519 header, by what bytes.fromhex and VerifyKey.verify
\* make of it: "authentic" and "forged" are hex strings of 64 bytes, the first
\* a signature of timestamp+body under PUBLIC_KEY and the second not; "short"
\* and "shifted" are hex strings of another length, "shifted" being a 64-byte
\* signature followed by the first bytes of the text it signs, the timestamp
\* header holding the rest, so that signature + timestamp + body is a signed
\* message; "non_hex" is not a hex string.  The empty string (the default of
\* a missing header) is hex of length 0.
SignatureValues == {"authentic", "forged", "short", "shifted", "non_hex"}

Headers == {s @@ ("x-signature-timestamp" :> "t") :
               s \in Optional("x-signature-ed25519", SignatureValues)}

LocationText == <<"a", " ", "b">>
MessageText == <<"h", "i">>

OptionSet == {[name |-> "location", value |-> LocationText],
              [name |-> "location", value |-> <<>>],
              [name |-> "location"],
              [name |-> "message", value |-> MessageText],
              [name |-> "message"],
              [name |-> "photo", value |-> <<"1">>]}

OptionLists == UNION {[1..n -> OptionSet] : n \in 0..MaxOptions}

DataValues == Optional("options", OptionLists)

MemberValues == {n @@ [user |-> [username |-> "bob"]] :
                    n \in Optional("nick", {"", "Nick"})}

AttachmentLists == {[i \in 1..n |-> [url |-> i]] : n \in 0..MaxAttachments}

\* 1 = ping, 2 = command, 4 = autocomplete, 3 = a kind the handler does not know.
TypeValues == {1, 2, 3, 4}

Bodies == {t @@ d @@ m @@ a @@ [id |-> "i", token |-> "k"] :
              t \in Optional("type", TypeValues),
              d \in Optional("data", DataValues),
              m \in Optional("member", MemberValues),
              a \in Optional("attachments", AttachmentLists)}

\* The raw request body: text that json.loads parses to a body, or text that
\* is not JSON.
RawBodies == {[json |-> FALSE]} \cup {[json |-> TRUE, value |-> b] : b \in Bodies}

Events == [headers : Headers, body : RawBodies]

(***************************************************************************)
(* The outbound services, as the replies the code can get from them.       *)
(***************************************************************************)
\* Place predictions: entry i carries description i, except that at most one
\* entry carries no description at all.
PredictionLists ==
    {[i \in 1..n |-> IF i = k THEN [place_id |-> i]
                              ELSE [place_id |-> i, description |-> i]] :
        n \in 0..MaxPredictions, k \in 0..MaxPredictions}

\* requests.get: the call fails in transport, or it gives a response whose
\* text response.json() parses or does not.
GetReplies == {[kind |-> "transport_error"], [kind |-> "not_json"]}
                \cup {[kind |-> "json", data |-> d] :
                         d \in Optional("predictions", PredictionLists)}

\* requests.post: the call fails in transport, or it gives a response with a
\* 2xx or another status code.
PostReplies == {"transport_error", "status_2xx", "status_other"}

(***************************************************************************)
(* Results of a call: a value, or an exception leaving the callee.         *)
(***************************************************************************)
Return(v) == [raised |-> FALSE, value |-> v]

Raise(e) == [raised |-> TRUE, exc |-> e]

\* Python truthiness of a str held as a sequence of characters.
Truthy(text) == text # <<>>

\* seq[:n]
Slice(seq, n) == SubSeq(seq, 1, Min(Len(seq), n))

(***************************************************************************)
(* verify_signature                                                        *)
(***************************************************************************)
\* PyNaCl is not pinned by the repository, and its releases differ on a
\* signature that is not 64 bytes long: VerifyKey.verify either checks the
\* length first and raises nacl.exceptions.ValueError, or hands
\* signature + message to crypto_sign_open unchecked.
VerifyLengthChecks == BOOLEAN

\* crypto_sign_open(signature + message): whether the concatenation is a
\* message signed under PUBLIC_KEY.  BadSignatureError when it is not.
SignedMessage(signature) == signature \in {"authentic", "shifted"}

\* bytes.fromhex raises ValueError on a string that is not hex, before
\* VerifyKey.verify is entered.  BadSignatureError is the only exception
\* caught; checks_length is what the installed VerifyKey.verify does.
verify_signature(ev, checks_length) ==
    LET signature == Get(ev.headers, "x-signature-ed25519", "")
    IN  IF signature = "non_hex" THEN Raise("ValueError")
        ELSE IF checks_length /\ signature \notin {"authentic", "forged"}
        THEN Raise("ValueError")
        ELSE Return(SignedMessage(signature))

(***************************************************************************)
(* get_location_suggestions                                                *)
(***************************************************************************)
\* A slice that keeps one prediction too many: predictions[:6].
PredictionSliceOneMore(predictions) == Slice(predictions, MaxSuggestions + 1)

\* predictions[:5]
PredictionSlice(predictions) == Slice(predictions, MaxSuggestions)

\* Whether the code calls the Places service for this input.
CallsPlaces(input_text) == Truthy(input_text)

\* The result of get_location_suggestions when requests.get ends as `reply`.
get_location_suggestions(input_text, reply) ==
    IF ~CallsPlaces(input_text) THEN Return(<<>>)
    ELSE IF reply.kind = "transport_error" THEN Raise("RequestException")
    ELSE IF reply.kind = "not_json" THEN Raise("JSONDecodeError")
    ELSE LET predictions == PredictionSlice(Get(reply.data, "predictions", <<>>))
         IN  IF \E i \in DOMAIN predictions : "description" \notin DOMAIN predictions[i]
             THEN Raise("KeyError")
             ELSE Return([i \in DOMAIN predictions |-> predictions[i].description])

(***************************************************************************)
(* urllib.parse.quote with its default safe="/"                            *)
(***************************************************************************)
\* The characters of the model's texts that quote leaves alone.
SafeChars == {"a", "b", "h", "i", "1", "_", ".", "-", "~", "/"}

\* The two hex digits of the other characters of the model's texts.
PercentCode == (" " :> <<"2", "0">>) @@ ("&" :> <<"2", "6">>) @@ ("," :> <<"2", "C">>)

QuoteChar(c) == IF c \in SafeChars THEN <<c>> ELSE <<"%">> \o PercentCode[c]

RECURSIVE Quote(_)
Quote(text) == IF text = <<>> THEN <<>>
               ELSE QuoteChar(Head(text)) \o Quote(Tail(text))

(***************************************************************************)
(* lambda_handler: the responses                                           *)
(***************************************************************************)
Response401 == [statusCode |-> 401, body |-> [text |-> "invalid request signature"]]

ResponsePing == [statusCode |-> 200, body |-> [json |-> [type |-> 1]]]

ResponseAutocomplete(choices) ==
    [statusCode |-> 200,
     headers |-> [content_type |-> "application/json"],
     body |-> [json |-> [type |-> 8, data |-> [choices |-> choices]]]]

ResponseAck == [statusCode |-> 200, body |-> [text |-> ""]]

Response400 == [statusCode |-> 400,
                body |-> [json |-> [error |-> "Unhandled interaction type"]]]

(***************************************************************************)
(* lambda_handler: the autocomplete branch                                 *)
(***************************************************************************)
\* The partial text handed to get_location_suggestions, when options is not
\* empty.
PartialText(options) == Get(options[1], "value", <<>>)

Choices(suggestions) ==
    [i \in DOMAIN suggestions |-> [name |-> suggestions[i], value |-> suggestions[i]]]

\* The result of the branch when requests.get, if called, ends as `reply`.
autocomplete(body, reply) ==
    IF "data" \notin DOMAIN body THEN Raise("KeyError")
    ELSE LET options == Get(body.data, "options", <<>>)
         IN  IF options = <<>> THEN Return(ResponseAutocomplete(<<>>))
             ELSE LET suggestions ==
                          get_location_suggestions(PartialText(options), reply)
                  IN  IF suggestions.raised THEN suggestions
                      ELSE Return(ResponseAutocomplete(Choices(suggestions.value)))

\* Whether the branch reaches requests.get.
AutocompleteCallsPlaces(body) ==
    /\ "data" \in DOMAIN body
    /\ Get(body.data, "options", <<>>) # <<>>
    /\ CallsPlaces(PartialText(Get(body.data, "options", <<>>)))

(***************************************************************************)
(* lambda_handler: the slash command branch                                *)
(***************************************************************************)
\* The loop over options: location_value starts as None (the empty tuple; a
\* value v is <<v>>) and message_value as "".  opt["value"] on an option
\* without a value is a KeyError.
RECURSIVE ExtractOptions(_, _)
ExtractOptions(options, acc) ==
    IF options = <<>> THEN Return(acc)
    ELSE LET opt == Head(options)
         IN  IF opt.name = "location"
             THEN IF "value" \notin DOMAIN opt THEN Raise("KeyError")
                  ELSE ExtractOptions(Tail(options),
                                      [acc EXCEPT !.location_value = <<opt.value>>])
             ELSE IF opt.name = "message"
             THEN IF "value" \notin DOMAIN opt THEN Raise("KeyError")
                  ELSE ExtractOptions(Tail(options),
                                      [acc EXCEPT !.message_value = opt.value])
             ELSE ExtractOptions(Tail(options), acc)

NoExtraction == [location_value |-> <<>>, message_value |-> <<>>]

\* if location_value:
HasLocation(ext) == ext.location_value # <<>> /\ Truthy(ext.location_value[1])

\* body["member"].get("nick") or body["member"]["user"]["username"]
DisplayName(member) ==
    IF Get(member, "nick", "") # "" THEN member.nick ELSE member.user.username

NoMessageProvided == <<"*No message provided*">>

Embed(location_value, message_value, display_name) ==
    LET encoded_location == Quote(location_value)
    IN  [title |-> "Check-In Complete!",
         color |-> 5793266,
         description |-> [location |-> location_value,
                          message |-> IF Truthy(message_value) THEN message_value
                                      ELSE NoMessageProvided,
                          maps_query |-> encoded_location],
         image |-> [url |-> [center |-> encoded_location, zoom |-> 15,
                             size |-> "600x300", markers |-> encoded_location]],
         footer |-> [text |-> display_name]]

\* No slice at all: every attachment is kept.
AttachmentSliceAll(attachments) == attachments

\* attachments[:4]
AttachmentSlice(attachments) == Slice(attachments, MaxAttachmentEmbeds)

\* embeds = [embed] followed by one image embed per attachment kept.
Embeds(embed, attachments) ==
    LET kept == AttachmentSlice(attachments)
    IN  <<embed>> \o [i \in DOMAIN kept |-> [image |-> [url |-> [attachment |-> kept[i].url]]]]

CheckinMessage(display_name, embeds) ==
    [type |-> 4,
     data |-> [content |-> [display_name |-> display_name, text |-> " just checked in!"],
               embeds |-> embeds]]

InstructionMessage ==
    [type |-> 4,
     data |-> [content |-> [text |-> "It looks like you didn't provide a location."],
               flags |-> EphemeralFlag]]

\* The message_data the branch hands to send_interaction_response, or the
\* exception that ends the branch before the send.
command(body) ==
    LET data == Get(body, "data", EmptyDict)
        options == Get(data, "options", <<>>)
        ext == IF options = <<>> THEN Return(NoExtraction)
               ELSE ExtractOptions(options, NoExtraction)
    IN  IF ext.raised THEN ext
        ELSE IF options # <<>> /\ HasLocation(ext.value)
        THEN IF "member" \notin DOMAIN body THEN Raise("KeyError")
             ELSE LET display_name == DisplayName(body.member)
                      embed == Embed(ext.value.location_value[1],
                                     ext.value.message_value, display_name)
                  IN  Return(CheckinMessage(display_name,
                                 Embeds(embed, Get(body, "attachments", <<>>))))
        ELSE Return(InstructionMessage)

(***************************************************************************)
(* send_interaction_response                                               *)
(***************************************************************************)
\* requests.post is called once; its response is only logged, and an
\* exception it raises is not caught.
send_interaction_response(reply) ==
    IF reply = "transport_error" THEN Raise("RequestException") ELSE Return(TRUE)

(***************************************************************************)
(* One invocation of lambda_handler                                        *)
(***************************************************************************)
NoResponse == EmptyDict

\* The parsed body, json.loads(event["body"]), once parsing has succeeded.
Body == event.body.value

\* body.get("type"), with 0 for None.
InteractionType == Get(Body, "type", 0)

Init ==
    /\ nacl_checks_length \in VerifyLengthChecks
    /\ event \in Events
    /\ pc = "verify"
    /\ message_data = <<>>
    /\ gets = <<>>
    /\ posts = <<>>
    /\ outcome = "running"
    /\ resp = NoResponse
    /\ exc = ""

\* return resp_dict
Finish(r) ==
    /\ pc' = "done"
    /\ outcome' = "returned"
    /\ resp' = r
    /\ UNCHANGED exc

\* An exception leaves lambda_handler.
Fail(e) ==
    /\ pc' = "done"
    /\ outcome' = "raised"
    /\ exc' = e
    /\ UNCHANGED resp

\* 1. Verify signature
Verify ==
    /\ pc = "verify"
    /\ LET v == verify_signature(event, nacl_checks_length)
       IN  IF v.raised THEN Fail(v.exc)
           ELSE IF ~v.value THEN Finish(Response401)
           ELSE pc' = "parse" /\ UNCHANGED <<outcome, resp, exc>>
    /\ UNCHANGED <<nacl_checks_length, event, message_data, gets, posts>>

\* body = json.loads(event["body"])
Parse ==
    /\ pc = "parse"
    /\ IF ~event.body.json THEN Fail("JSONDecodeError")
       ELSE pc' = "dispatch" /\ UNCHANGED <<outcome, resp, exc>>
    /\ UNCHANGED <<nacl_checks_length, event, message_data, gets, posts>>

\* 2. PING
Ping ==
    /\ pc = "dispatch"
    /\ InteractionType = 1
    /\ Finish(ResponsePing)
    /\ UNCHANGED <<nacl_checks_length, event, message_data, gets, posts>>

\* 3. AUTO-COMPLETE
Autocomplete ==
    /\ pc = "dispatch"
    /\ InteractionType = 4
    /\ \E reply \in GetReplies :
          LET r == autocomplete(Body, reply)
          IN  /\ gets' = IF AutocompleteCallsPlaces(Body)
                         THEN Append(gets, [input |-> PartialText(Body.data.options),
                                            reply |-> reply])
                         ELSE gets
              /\ IF r.raised THEN Fail(r.exc) ELSE Finish(r.value)
    /\ UNCHANGED <<nacl_checks_length, event, message_data, posts>>

\* 4. SLASH COMMAND, up to the call of send_interaction_response
Command ==
    /\ pc = "dispatch"
    /\ InteractionType = 2
    /\ LET m == command(Body)
       IN  IF m.raised THEN Fail(m.exc) /\ UNCHANGED message_data
           ELSE /\ message_data' = <<m.value>>
                /\ pc' = "send"
                /\ UNCHANGED <<outcome, resp, exc>>
    /\ UNCHANGED <<nacl_checks_length, event, gets, posts>>

\* send_interaction_response(interaction_id, interaction_token, message_data)
Send ==
    /\ pc = "send"
    /\ \E reply \in PostReplies :
          /\ posts' = Append(posts, [message_data |-> message_data[1], reply |-> reply])
          /\ IF send_interaction_response(reply).raised
             THEN Fail(send_interaction_response(reply).exc)
             ELSE pc' = "ack" /\ UNCHANGED <<outcome, resp, exc>>
    /\ UNCHANGED <<nacl_checks_length, event, message_data, gets>>

\* resp_dict = {"statusCode": 200, "body": ""} after the send
Ack ==
    /\ pc = "ack"
    /\ Finish(ResponseAck)
    /\ UNCHANGED <<nacl_checks_length, event, message_data, gets, posts>>

\* 5. Fallback - unhandled interaction types
Fallback ==
    /\ pc = "dispatch"
    /\ InteractionType \notin {1, 2, 4}
    /\ Finish(Response400)
    /\ UNCHANGED <<nacl_checks_length, event, message_data, gets, posts>>

Next == \/ Verify
        \/ Parse
        \/ Ping
        \/ Autocomplete
        \/ Command
        \/ Send
        \/ Ack
        \/ Fallback

Spec == Init /\ [][Next]_vars

(***************************************************************************)
(* Vocabulary of the properties                                            *)
(***************************************************************************)
Done == pc = "done"

Returned == outcome = "returned"

\* The signature header holds a signature of the request under PUBLIC_KEY.
Authentic == Get(event.headers, "x-signature-ed25519", "") = "authentic"

\* verify_signature returned True for the request.
Verified == verify_signature(event, nacl_checks_length) = Return(TRUE)

\* A verified request whose body parsed, of interaction type t.
VerifiedOfType(t) == Verified /\ event.body.json /\ InteractionType = t

IsAutocompleteReply(r) ==
    /\ r.statusCode = 200
    /\ "json" \in DOMAIN r.body
    /\ r.body.json.type = 8

ReplyChoices == resp.body.json.data.choices

\* The partial text of an autocomplete request is empty or missing.
NoPartialText ==
    \/ "data" \notin DOMAIN Body
    \/ "options" \notin DOMAIN Body.data
    \/ Body.data.options = <<>>
    \/ "value" \notin DOMAIN Body.data.options[1]
    \/ Body.data.options[1].value = <<>>

\* The options of a command submission, [] when data or options is absent.
CommandOptions == Get(Get(Body, "data", EmptyDict), "options", <<>>)

\* Every location or message option carries a value.
OptionsWellFormed ==
    \A i \in DOMAIN CommandOptions : "value" \in DOMAIN CommandOptions[i]

\* The last location option, if any, has a non-empty value.
LocationGiven ==
    \E i \in DOMAIN CommandOptions :
        /\ CommandOptions[i].name = "location"
        /\ "value" \in DOMAIN CommandOptions[i]
        /\ CommandOptions[i].value # <<>>
        /\ \A j \in DOMAIN CommandOptions :
              j > i => CommandOptions[j].name # "location"

IsEmbedReply(m) == "embeds" \in DOMAIN m.data

IsInstruction(m) ==
    /\ "embeds" \notin DOMAIN m.data
    /\ "flags" \in DOMAIN m.data
    /\ m.data.flags = 64

(***************************************************************************)
(* C1.  A request whose signature is forged, malformed (not hex, or of the *)
(* wrong length) or missing ends with the 401 response, with no exception  *)
(* leaving the handler and with no outbound call made.                     *)
(***************************************************************************)
C1_BadSignatureGives401 ==
    (Done /\ ~Authentic) =>
        /\ Returned
        /\ resp.statusCode = 401
        /\ gets = <<>>
        /\ posts = <<>>

(***************************************************************************)
(* C2.  Every invocation ends having produced exactly one reply: it never  *)
(* ends by an exception, which leaves no reply.                            *)
(***************************************************************************)
C2_ExactlyOneReply ==
    Done => /\ Returned
            /\ resp.statusCode \in {200, 400, 401}

(***************************************************************************)
(* C3.  The status code follows from the classification alone: 401 exactly *)
(* when verification fails, 400 with the error body and no callback POST   *)
(* exactly when the request is verified and of a type other than 1, 2, 4,  *)
(* and 200 for every verified request of type 1, 2 or 4.                   *)
(***************************************************************************)
C3_StatusByClassification ==
    Done =>
        /\ Returned
        /\ (resp.statusCode = 401 <=> ~Verified)
        /\ (Verified /\ event.body.json) =>
              /\ (resp.statusCode = 400 <=> InteractionType \notin {1, 2, 4})
              /\ (resp.statusCode = 400 => resp = Response400 /\ posts = <<>>)
              /\ (InteractionType \in {1, 2, 4} => resp.statusCode = 200)

(***************************************************************************)
(* C4.  When the call of the suggestion service fails (transport error, a  *)
(* response that is not JSON, a prediction without a description), the     *)
(* autocomplete request still gets the 200 reply with no choices.          *)
(***************************************************************************)
SuggestionCallFailed ==
    /\ gets # <<>>
    /\ \/ gets[1].reply.kind \in {"transport_error", "not_json"}
       \/ /\ gets[1].reply.kind = "json"
          /\ \E i \in DOMAIN Get(gets[1].reply.data, "predictions", <<>>) :
                "description" \notin DOMAIN gets[1].reply.data.predictions[i]

C4_SuggestionFailureAbsorbed ==
    (Done /\ SuggestionCallFailed) =>
        /\ Returned
        /\ IsAutocompleteReply(resp)
        /\ ReplyChoices = <<>>

(***************************************************************************)
(* C5.  Once the callback POST of a command submission has been attempted, *)
(* the invocation ends with the empty 200 acknowledgment whether the POST  *)
(* succeeded or failed, and the POST is attempted once only.               *)
(***************************************************************************)
C5_AckIndependentOfSend ==
    (Done /\ posts # <<>>) =>
        /\ Returned
        /\ resp = ResponseAck
        /\ Len(posts) = 1

(***************************************************************************)
(* C6.  A verified autocomplete request whose partial text is empty or     *)
(* missing (also when the payload has no data field) gets the 200 reply    *)
(* with no choices, and the suggestion service is not called.              *)
(***************************************************************************)
C6_EmptyInputShortCircuits ==
    (Done /\ VerifiedOfType(4) /\ NoPartialText) =>
        /\ Returned
        /\ IsAutocompleteReply(resp)
        /\ ReplyChoices = <<>>
        /\ gets = <<>>

(***************************************************************************)
(* C7.  When the suggestion service returns a list of n predictions, the   *)
(* reply of the autocomplete request holds min(n, 5) choices, the          *)
(* descriptions of the first five predictions in the service's order, each *)
(* with name equal to value.                                               *)
(***************************************************************************)
ReturnedPredictions == Get(gets[1].reply.data, "predictions", <<>>)

\* The service answered with predictions whose first five are described.
PredictionsReturned ==
    /\ gets # <<>>
    /\ gets[1].reply.kind = "json"
    /\ \A i \in 1..Min(Len(ReturnedPredictions), 5) :
          "description" \in DOMAIN ReturnedPredictions[i]

C7_FirstFiveChoices ==
    (Done /\ PredictionsReturned) =>
        /\ Returned
        /\ IsAutocompleteReply(resp)
        /\ Len(ReplyChoices) = Min(Len(ReturnedPredictions), 5)
        /\ \A i \in 1..Len(ReplyChoices) :
              /\ ReplyChoices[i].name = ReturnedPredictions[i].description
              /\ ReplyChoices[i].value = ReplyChoices[i].name

C7_Witness ==
    /\ Done
    /\ PredictionsReturned
    /\ Len(ReturnedPredictions) = 6
    /\ Returned
    /\ Len(ReplyChoices) = 5

(***************************************************************************)
(* C8.  The embeds of the check-in reply to a command submission with a    *)
(* location and n attachments are the main embed followed by one image     *)
(* entry for each of the first four attachments, in their order:           *)
(* 1 + min(n, 4) entries.                                                  *)
(***************************************************************************)
RequestAttachments == Get(Body, "attachments", <<>>)

SentEmbeds == posts[1].message_data.data.embeds

C8_EmbedsFirstFourAttachments ==
    (posts # <<>> /\ VerifiedOfType(2) /\ OptionsWellFormed /\ LocationGiven) =>
        /\ IsEmbedReply(posts[1].message_data)
        /\ Len(SentEmbeds) = 1 + Min(Len(RequestAttachments), 4)
        /\ "title" \in DOMAIN SentEmbeds[1]
        /\ \A i \in 1..Min(Len(RequestAttachments), 4) :
              SentEmbeds[i + 1] =
                  [image |-> [url |-> [attachment |-> RequestAttachments[i].url]]]

C8_Witness ==
    /\ posts # <<>>
    /\ VerifiedOfType(2)
    /\ OptionsWellFormed
    /\ LocationGiven
    /\ Len(RequestAttachments) = 6
    /\ IsEmbedReply(posts[1].message_data)
    /\ Len(SentEmbeds) = 5

(***************************************************************************)
(* C9.  A verified command submission without a location (no options, no   *)
(* location option, or a location of empty value) ends with the empty 200  *)
(* acknowledgment and exactly one callback POST, which carries the         *)
(* instruction with flags 64 and no embeds.                                *)
(***************************************************************************)
C9_NoLocationInstruction ==
    (Done /\ VerifiedOfType(2) /\ OptionsWellFormed /\ ~LocationGiven) =>
        /\ Returned
        /\ resp = ResponseAck
        /\ Len(posts) = 1
        /\ IsInstruction(posts[1].message_data)

(***************************************************************************)
(* C10.  An invocation makes at most one outbound call, fixed by its       *)
(* branch: none unless the request is verified and of type 2 or 4; an      *)
(* autocomplete never posts; a command submission makes exactly one        *)
(* callback POST and no suggestion GET, and the POST precedes the          *)
(* acknowledgment.                                                         *)
(***************************************************************************)
C10_OneCallPerBranch ==
    /\ Len(gets) + Len(posts) <= 1
    /\ (~Verified \/ ~event.body.json) => (gets = <<>> /\ posts = <<>>)
    /\ (Verified /\ event.body.json) =>
          /\ (InteractionType \notin {2, 4} => gets = <<>> /\ posts = <<>>)
          /\ (InteractionType = 4 => posts = <<>>)
          /\ (InteractionType = 2 => gets = <<>>)
          /\ (InteractionType = 2 /\ Done) =>
                /\ Len(posts) = 1
                /\ IsEmbedReply(posts[1].message_data)
                       # IsInstruction(posts[1].message_data)
          /\ (InteractionType = 2 /\ Returned) => posts # <<>>

====
